---- MODULE Spec2Model ----
(***************************************************************************)
(* A model of scripts/download_noto_emoji.py: the bulk downloader of the   *)
(* Noto animated emoji.  download_all fetches the catalog, saves it to     *)
(* _metadata.json, runs download_one for every catalog entry on a thread   *)
(* pool of 10 workers, counts the outcomes as they complete, prints the    *)
(* summary and saves the category index to _categories.json.               *)
(*                                                                         *)
(* Strings that the code takes apart (codepoint, tag, name) are sequences  *)
(* of one-character strings.  An optional dictionary key is a sequence of  *)
(* length 0 (key absent) or 1 (key present, holding the value).            *)
(* The remote servers are the environment: every response is chosen        *)
(* nondeterministically when it arrives.                                   *)
(***************************************************************************)
EXTENDS Integers, Sequences, FiniteSets

(***************************************************************************)
(* Bounds of the model.                                                    *)
(***************************************************************************)
\* longest catalog served
MaxItems == 2
\* catalog entries beyond the pool size in the thread-pool specification
PoolExtra == 1

\* longest catalog of the index specification
MaxIndexItems == 3
\* most outcomes of a kind in the specification of the collecting loop
MaxOk == 26
MaxSkipped == 2
MaxFailed == 12

(***************************************************************************)
(* Program constants.                                                      *)
(***************************************************************************)
\* ThreadPoolExecutor(max_workers=10)
max_workers == 10
\* r.status_code == 200, response.status_code != 200
HTTP_OK == 200
\* size_kb = len(r.content) / 1024
KB_DIVISOR == 1024

(***************************************************************************)
(* String helpers (str.strip, str.replace, f-string concatenation).        *)
(***************************************************************************)
RECURSIVE LStrip(_, _)
LStrip(s, ch) ==
    IF s # <<>> /\ Head(s) = ch THEN LStrip(Tail(s), ch) ELSE s

RECURSIVE RStrip(_, _)
RStrip(s, ch) ==
    IF s # <<>> /\ s[Len(s)] = ch THEN RStrip(SubSeq(s, 1, Len(s) - 1), ch) ELSE s

\* s.strip(ch): every leading and every trailing ch is removed
Strip(s, ch) == RStrip(LStrip(s, ch), ch)

\* s.replace(old, new) for one-character old and new
Replace(s, old, new) == [k \in 1..Len(s) |-> IF s[k] = old THEN new ELSE s[k]]

\* dict.get(key, default) on an optional key
Get(opt, default) == IF opt = <<>> THEN default ELSE opt[1]

(***************************************************************************)
(* Catalog entries.                                                        *)
(***************************************************************************)
\* tags with colons and a hyphen, two categories first seen out of order
EmojiA ==
    [codepoint |-> <<"a">>, name |-> <<"g">>,
     tags |-> << << <<":", "g", "-", "h", ":">> >> >>,
     categories |-> << <<"Smileys", "Animals">> >>, popularity |-> <<3>>]

\* a multi-codepoint entry (the codepoint holds a space), no tags key,
\* no categories key, no popularity key
EmojiB ==
    [codepoint |-> <<"a", " ", "b">>, name |-> <<"c">>,
     tags |-> <<>>, categories |-> <<>>, popularity |-> <<>>]

\* another entry whose file name coincides with EmojiA's; its categories
\* list is present and empty, its tags list is present and empty
EmojiC ==
    [codepoint |-> <<"a", "_", "g">>, name |-> <<"h">>,
     tags |-> << <<>> >>, categories |-> << <<>> >>, popularity |-> <<1>>]

\* what the catalog endpoint has to serve, in its order
AllEmojis == <<EmojiA, EmojiB, EmojiC>>

\* the k-th of a row of single-codepoint entries, all different
HexDigits == <<"0", "1", "2", "3", "4", "5", "6", "7", "8", "9", "a", "b", "c", "d", "e", "f">>
PoolEmoji(k) ==
    [codepoint |-> <<HexDigits[k]>>, name |-> <<"p">>,
     tags |-> <<>>, categories |-> <<>>, popularity |-> <<>>]

\* the entries of s at the positions in S, in the order of s
Pick(s, S) ==
    LET F[k \in 0..Len(s)] ==
            IF k = 0 THEN <<>>
            ELSE IF k \in S THEN Append(F[k - 1], s[k]) ELSE F[k - 1]
    IN  F[Len(s)]

\* the catalogs of at most n entries taken in order from s
SubSeqsUpTo(s, n) ==
    {Pick(s, S) : S \in {T \in SUBSET (1..Len(s)) : Cardinality(T) <= n}}

\* an entry that shares a category with EmojiA
EmojiD ==
    [codepoint |-> <<"d">>, name |-> <<"d">>,
     tags |-> <<>>, categories |-> << <<"Animals">> >>, popularity |-> <<>>]

\* the entries the catalogs of the index specification are made of
IndexEmojis == {EmojiA, EmojiB, EmojiC, EmojiD}

\* the catalogs of at most n entries of S, no entry twice, in every order
Arrangements(S, n) ==
    {s \in UNION {[1..k -> S] : k \in 0..n} :
        \A i, j \in DOMAIN s : i # j => s[i] # s[j]}

(***************************************************************************)
(* Sizes in kilobytes.  len(content) / 1024 is a float; it is kept here as *)
(* the exact fraction num/den (a division by a power of two and the sums   *)
(* of such quotients are exact in binary floating point at these sizes).   *)
(***************************************************************************)
KB(n) == [num |-> n, den |-> KB_DIVISOR]

\* the integer 0 that "skipped", "failed" and "error" carry as their size
ZeroSize == [num |-> 0, den |-> 1]

\* a + b of two such numbers
AddSize(a, b) ==
    IF a.den = b.den THEN [num |-> a.num + b.num, den |-> a.den]
    ELSE [num |-> a.num * b.den + b.num * a.den, den |-> a.den * b.den]

\* f"{size_kb:.1f}": the number of tenths printed, rounded half to even
FormatKB1(q) ==
    LET t == q.num * 10
        whole == t \div q.den
        rest == t % q.den
    IN  IF 2 * rest > q.den THEN whole + 1
        ELSE IF 2 * rest < q.den THEN whole
        ELSE IF whole % 2 = 0 THEN whole ELSE whole + 1

(***************************************************************************)
(* The remote servers.                                                     *)
(***************************************************************************)
NoBody == [data |-> "", len |-> 0]
\* b"PAYLOAD"
Body1 == [data |-> "PAYLOAD", len |-> 7]
Body2 == [data |-> "LOTTIE", len |-> 1024]
\* what an earlier run of any version may have left in the output directory
OldBody == [data |-> "OLD", len |-> 512]

Http(status, content) ==
    [kind |-> "http", status_code |-> status, content |-> content, exc |-> ""]
\* requests.get raises: connection failure or timeout
Fault(e) ==
    [kind |-> "exc", status_code |-> 0, content |-> NoBody, exc |-> e]

ItemResponses ==
    {Http(HTTP_OK, Body1), Http(HTTP_OK, Body2), Http(404, NoBody), Http(500, NoBody),
     Fault("ConnectionError"), Fault("Timeout")}

CatalogResponses ==
    {Http(HTTP_OK, NoBody), Http(404, NoBody), Http(500, NoBody),
     Fault("ConnectionError")}

(***************************************************************************)
(* download_one: the local computations.                                   *)
(***************************************************************************)
\* tag = tags[0] if tags else name
TagOf(emoji) ==
    LET tags == Get(emoji.tags, <<>>)
    IN  IF tags # <<>> THEN tags[1] ELSE emoji.name

\* filename = f"{codepoint}_{tag.strip(':').replace('-', '_')}.json"
Filename(emoji) ==
    emoji.codepoint \o <<"_">> \o Replace(Strip(TagOf(emoji), ":"), "-", "_")
        \o <<".json">>

\* url = f"{BASE_URL}/{codepoint}/lottie.json"
Url(emoji) == <<"BASE_URL/">> \o emoji.codepoint \o <<"/lottie.json">>

\* Url2 with the replacement of spaces forgotten
Url2_Verbatim(emoji) == <<"BASE_URL/">> \o emoji.codepoint \o <<"/lottie.json">>

\* url2 = f"{BASE_URL}/{codepoint.replace(' ', '_')}/lottie.json"
Url2(emoji) ==
    <<"BASE_URL/">> \o Replace(emoji.codepoint, " ", "_") \o <<"/lottie.json">>

Msg(text, http, exc, tenths) ==
    [text |-> text, http |-> http, exc |-> exc, tenths |-> tenths]

\* size_kb = len(r.content) / 1024
SizeKB(content) == KB(content.len)

\* return "skipped", name, 0
Skipped(emoji) ==
    [status |-> "skipped", msg |-> Msg(emoji.name, 0, "", 0), size |-> ZeroSize]

\* return "ok", f"{tag} ({size_kb:.1f}KB)", size_kb
Ok(emoji, content) ==
    [status |-> "ok",
     msg |-> Msg(TagOf(emoji), 0, "", FormatKB1(SizeKB(content))),
     size |-> SizeKB(content)]

\* Failed reporting r2.status_code
Failed_SecondaryStatus(emoji, r, r2) ==
    [status |-> "failed", msg |-> Msg(emoji.name, r2, "", 0), size |-> ZeroSize]

\* return "failed", f"{name} HTTP {r.status_code}", 0
Failed(emoji, r, r2) ==
    [status |-> "failed", msg |-> Msg(emoji.name, r, "", 0), size |-> ZeroSize]

\* Error returned under the status of a determinate failure
Error_AsFailed(emoji, e) ==
    [status |-> "failed", msg |-> Msg(emoji.name, 0, e, 0), size |-> ZeroSize]

\* return "error", f"{name}: {e}", 0
Error(emoji, e) ==
    [status |-> "error", msg |-> Msg(emoji.name, 0, e, 0), size |-> ZeroSize]

\* download_one raises e instead of returning: the future holds the exception
Raised(e) ==
    [status |-> "raised", msg |-> Msg(<<>>, 0, e, 0), size |-> ZeroSize]

\* "except requests.ConnectionError": a timeout is not caught
Catches_OnlyConnectionError(e) == e = "ConnectionError"

\* an except clause that lets the exceptions of requests.get through
Catches_Nothing(e) == FALSE

\* except Exception as e: the exceptions of requests.get are Exceptions
Catches(e) == e \in {"ConnectionError", "Timeout"}

NoResult == [status |-> "none", msg |-> Msg(<<>>, 0, "", 0), size |-> ZeroSize]


\* the existence check left out
Exists_Never(fs, filepath) == FALSE

\* os.path.exists(filepath)
Exists(fs, filepath) == filepath \in DOMAIN fs

\* the content never reaches the destination path
WriteFile_Dropped(fs, filepath, content) == fs

\* with open(filepath, 'wb') as f: f.write(content)
WriteFile(fs, filepath, content) ==
    [p \in DOMAIN fs \cup {filepath} |-> IF p = filepath THEN content ELSE fs[p]]

\* r.status_code == 200
IsSuccess(r) == r.status_code = HTTP_OK

(***************************************************************************)
(* download_all: the local computations.                                   *)
(***************************************************************************)
\* only "not found" treated as a failed catalog request
CatalogFailed_Only404(resp) == resp.status_code = 404

\* response.status_code != 200
CatalogFailed(resp) == resp.status_code # HTTP_OK

\* one thread per submitted work item
WorkerAvailable_Unbounded(inFlight) == TRUE

\* the executor runs one more work item only on a thread of its pool
WorkerAvailable(inFlight) == inFlight < max_workers

\* Tally with "elif status == 'failed'" for its last branch: "error" uncounted
Tally_ErrorsDropped(c, status, size) ==
    IF status = "ok"
    THEN LET d == c.downloaded + 1
         IN  [c EXCEPT !.downloaded = d,
                       !.total_size = AddSize(c.total_size, size),
                       !.print = (d % 25 = 0 \/ d <= 5)]
    ELSE IF status = "skipped"
    THEN [c EXCEPT !.skipped = c.skipped + 1, !.print = FALSE]
    ELSE IF status = "failed"
    THEN LET f == c.failed + 1
         IN  [c EXCEPT !.failed = f, !.print = (f <= 10)]
    ELSE [c EXCEPT !.print = FALSE]

\* Tally with the FAIL line printed for every failure
Tally_FailuresUncapped(c, status, size) ==
    IF status = "ok"
    THEN LET d == c.downloaded + 1
         IN  [c EXCEPT !.downloaded = d,
                       !.total_size = AddSize(c.total_size, size),
                       !.print = (d % 25 = 0 \/ d <= 5)]
    ELSE IF status = "skipped"
    THEN [c EXCEPT !.skipped = c.skipped + 1, !.print = FALSE]
    ELSE LET f == c.failed + 1
         IN  [c EXCEPT !.failed = f, !.print = TRUE]

\* the body of "for future in as_completed(futures)": the counters after
\* one outcome, and whether a line is printed for it
Tally(c, status, size) ==
    IF status = "ok"
    THEN LET d == c.downloaded + 1
         IN  [c EXCEPT !.downloaded = d,
                       !.total_size = AddSize(c.total_size, size),
                       !.print = (d % 25 = 0 \/ d <= 5)]
    ELSE IF status = "skipped"
    THEN [c EXCEPT !.skipped = c.skipped + 1, !.print = FALSE]
    ELSE LET f == c.failed + 1
         IN  [c EXCEPT !.failed = f, !.print = (f <= 10)]

\* the lines printed by the loop: for each kind of outcome, which of its
\* outcomes (the 1st, the 2nd, ... collected) got a line
NoLines == [ok |-> {}, skipped |-> {}, failed |-> {}]

\* print(f"  [{downloaded}/{total}] {msg}"), print(f"  FAIL: {msg}"): c is
\* what Tally returned for the outcome
PrintLine(lines, c, status) ==
    IF ~c.print THEN lines
    ELSE IF status = "ok" THEN [lines EXCEPT !.ok = @ \cup {c.downloaded}]
    ELSE IF status = "skipped" THEN [lines EXCEPT !.skipped = @ \cup {c.skipped}]
    ELSE [lines EXCEPT !.failed = @ \cup {c.failed}]

\* download_all with the metadata saved after the downloads
NextStmt_MetadataLast(stmt) ==
    CASE stmt = "parse" -> "submit"
      [] stmt = "submit" -> "loop"
      [] stmt = "loop" -> "save_metadata"
      [] stmt = "save_metadata" -> "summary"
      [] stmt = "summary" -> "index"
      [] stmt = "index" -> "done"

\* the statement of download_all that follows a statement
NextStmt(stmt) ==
    CASE stmt = "parse" -> "save_metadata"
      [] stmt = "save_metadata" -> "submit"
      [] stmt = "submit" -> "loop"
      [] stmt = "loop" -> "summary"
      [] stmt = "summary" -> "index"
      [] stmt = "index" -> "done"

\* the item summary stored in the category index
Summary(emoji) ==
    [codepoint |-> emoji.codepoint, name |-> emoji.name,
     tags |-> Get(emoji.tags, <<>>), popularity |-> Get(emoji.popularity, 0)]

\* emoji.get("categories", ["Other"])
CategoriesOf(emoji) == Get(emoji.categories, <<"Other">>)

\* the category names in the order of sorted(), the order of their characters
CategoryNames == <<"Animals", "Other", "Smileys">>
NameRank(cat) == CHOOSE n \in 1..Len(CategoryNames) : CategoryNames[n] = cat

\* AddToCategory on a dict that keeps its keys sorted by name
AddToCategory_Sorted(dict, cat, item) ==
    IF \E k \in 1..Len(dict) : dict[k].cat = cat
    THEN [k \in 1..Len(dict) |->
            IF dict[k].cat = cat
            THEN [dict[k] EXCEPT !.items = Append(dict[k].items, item)]
            ELSE dict[k]]
    ELSE LET below == Cardinality({k \in 1..Len(dict) :
                                     NameRank(dict[k].cat) < NameRank(cat)})
         IN  SubSeq(dict, 1, below) \o <<[cat |-> cat, items |-> <<item>>]>>
                \o SubSeq(dict, below + 1, Len(dict))

\* categories[cat].append(...), the key created at its first use; the dict
\* is a sequence of (key, list) pairs in insertion order
AddToCategory(dict, cat, item) ==
    IF \E k \in 1..Len(dict) : dict[k].cat = cat
    THEN [k \in 1..Len(dict) |->
            IF dict[k].cat = cat
            THEN [dict[k] EXCEPT !.items = Append(dict[k].items, item)]
            ELSE dict[k]]
    ELSE Append(dict, [cat |-> cat, items |-> <<item>>])

RECURSIVE AddToCategories(_, _, _)
AddToCategories(dict, cats, item) ==
    IF cats = <<>> THEN dict
    ELSE AddToCategories(AddToCategory(dict, Head(cats), item), Tail(cats), item)

\* for emoji in emojis: for cat in ...: ...
RECURSIVE BuildCategories(_, _)
BuildCategories(dict, items) ==
    IF items = <<>> THEN dict
    ELSE BuildCategories(
            AddToCategories(dict, CategoriesOf(Head(items)), Summary(Head(items))),
            Tail(items))


(***************************************************************************)
(* State.                                                                  *)
(***************************************************************************)
VARIABLES
    catalog,     \* what the catalog endpoint serves ("icons" of api.json)
    rerun,       \* the script has run on this output directory before
    pc,          \* the statement download_all is at
    exitCode,    \* <<>> while the process runs, <<code>> once it has ended
    dirExists,   \* OUTPUT_DIR exists
    files,       \* the emoji files of OUTPUT_DIR: file name -> content
    metaFile,    \* _metadata.json: <<>> or <<content>>
    catFile,     \* _categories.json: <<>> or <<content>>
    emojis,      \* data["icons"]
    st,          \* per future: queued, check, primary, secondary, done, collected
    prim,        \* per future: r.status_code while download_one holds r (else 0)
    result,      \* per future: what download_one returned
    downloaded, skipped, failed, total_size,
    printed,     \* the lines the loop has printed, see NoLines
    summary,     \* <<>> or <<the counters printed>>
    response,    \* <<>> or <<the response to the catalog request>>
    reqlog,      \* per future: the URLs requested, in order
    resplog,     \* per future: the responses received, in order
    sawExists,   \* per future: what os.path.exists returned
    writes,      \* per future: the contents it wrote
    metaSaved,   \* _metadata.json was written in this run
    catSaved,    \* _categories.json was written in this run
    startFiles,  \* the emoji files that existed when this run started
    prevStatus   \* <<the statuses of the previous run>>, <<>> if it did not complete

vars ==
    <<catalog, rerun, pc, exitCode, dirExists, files, metaFile, catFile, emojis,
      st, prim, result, downloaded, skipped, failed, total_size, printed, summary,
      response, reqlog, resplog, sawExists, writes, metaSaved, catSaved, startFiles, prevStatus>>

fsVars == <<dirExists, files, metaFile, catFile>>
itemVars == <<st, prim, result, reqlog, resplog, sawExists, writes>>
countVars == <<downloaded, skipped, failed, total_size, printed>>
histVars == <<metaSaved, catSaved, startFiles, prevStatus>>

\* the futures: one per catalog entry, made by SubmitAll
Items == 1..Len(emojis)
InFlightStates == {"check", "primary", "secondary"}
\* the download_one invocations that have started and not returned
InFlight == Cardinality({i \in DOMAIN st : st[i] \in InFlightStates})

Counters ==
    [downloaded |-> downloaded, skipped |-> skipped, failed |-> failed,
     total_size |-> total_size, print |-> FALSE]

(***************************************************************************)
(* Initial states.                                                         *)
(***************************************************************************)
FreshRun ==
    /\ pc = "start"
    /\ exitCode = <<>>
    /\ emojis = <<>>
    /\ st = <<>> /\ prim = <<>> /\ result = <<>>
    /\ response = <<>>
    /\ reqlog = <<>> /\ resplog = <<>> /\ sawExists = <<>> /\ writes = <<>>
    /\ downloaded = 0 /\ skipped = 0 /\ failed = 0 /\ total_size = ZeroSize
    /\ printed = NoLines
    /\ summary = <<>>
    /\ metaSaved = FALSE /\ catSaved = FALSE

Range(s) == {s[k] : k \in 1..Len(s)}

InitWith(catalogs) ==
    /\ catalog \in catalogs
    /\ rerun = FALSE
    /\ FreshRun
    /\ dirExists \in BOOLEAN
    /\ \E S \in SUBSET {Filename(e) : e \in Range(catalog)} :
          files = [p \in (IF dirExists THEN S ELSE {}) |-> OldBody]
    /\ metaFile = <<>> /\ catFile = <<>>
    /\ startFiles = DOMAIN files
    /\ prevStatus = <<>>

Init == InitWith(SubSeqsUpTo(AllEmojis, MaxItems))


(***************************************************************************)
(* download_all, the main thread.                                          *)
(***************************************************************************)
runVars == <<catalog, rerun>>

\* os.makedirs(OUTPUT_DIR, exist_ok=True); requests.get(DATA_URL) is sent
StartRun ==
    /\ pc = "start"
    /\ dirExists' = TRUE
    /\ pc' = "catalog"
    /\ UNCHANGED <<runVars, exitCode, files, metaFile, catFile, emojis, response,
                   summary, itemVars, countVars, histVars>>

\* the catalog request raises: nothing catches it, the process dies
CatalogUnreachable(resp) ==
    /\ pc = "catalog"
    /\ resp.kind = "exc"
    /\ response' = <<resp>>
    /\ pc' = "crashed"
    /\ exitCode' = <<1>>
    /\ UNCHANGED <<runVars, emojis, summary, fsVars, itemVars, countVars, histVars>>

\* if response.status_code != 200: print(...); return
CatalogRejected(resp) ==
    /\ pc = "catalog"
    /\ resp.kind = "http"
    /\ CatalogFailed(resp)
    /\ response' = <<resp>>
    /\ pc' = "aborted"
    /\ exitCode' = <<0>>
    /\ UNCHANGED <<runVars, emojis, summary, fsVars, itemVars, countVars, histVars>>

\* data = response.json(); emojis = data["icons"]; total = len(emojis)
CatalogParsed(resp) ==
    /\ pc = "catalog"
    /\ resp.kind = "http"
    /\ ~CatalogFailed(resp)
    /\ response' = <<resp>>
    /\ emojis' = catalog
    /\ pc' = NextStmt("parse")
    /\ UNCHANGED <<runVars, exitCode, summary, fsVars, itemVars, countVars, histVars>>

\* with open(meta_path, 'w') as f: json.dump(emojis, f)
SaveMetadata ==
    /\ pc = "save_metadata"
    /\ metaFile' = <<emojis>>
    /\ metaSaved' = TRUE
    /\ pc' = NextStmt("save_metadata")
    /\ UNCHANGED <<runVars, exitCode, dirExists, files, catFile, emojis, response,
                   summary, catSaved, startFiles, prevStatus, itemVars, countVars>>

\* downloaded = skipped = failed = total_size = 0; every download_one is
\* submitted to the executor, in catalog order
SubmitAll ==
    /\ pc = "submit"
    /\ st' = [i \in Items |-> "queued"]
    /\ prim' = [i \in Items |-> 0]
    /\ result' = [i \in Items |-> NoResult]
    /\ reqlog' = [i \in Items |-> <<>>]
    /\ resplog' = [i \in Items |-> <<>>]
    /\ sawExists' = [i \in Items |-> "unchecked"]
    /\ writes' = [i \in Items |-> <<>>]
    /\ downloaded' = 0 /\ skipped' = 0 /\ failed' = 0 /\ total_size' = ZeroSize
    /\ printed' = NoLines
    /\ pc' = NextStmt("submit")
    /\ UNCHANGED <<runVars, exitCode, emojis, response, summary, fsVars, histVars>>

\* the body of the loop for an outcome: the counters are updated and the
\* line, if any, is printed
Tallied(status, size) ==
    LET c == Tally(Counters, status, size)
    IN  /\ downloaded' = c.downloaded
        /\ skipped' = c.skipped
        /\ failed' = c.failed
        /\ total_size' = c.total_size
        /\ printed' = PrintLine(printed, c, status)

\* one turn of "for future in as_completed(futures)": future.result()
\* returns what download_one returned, or raises what it raised
Collect(i) ==
    /\ pc = "loop"
    /\ st[i] = "done"
    /\ st' = [st EXCEPT ![i] = "collected"]
    /\ IF result[i].status = "raised"
       THEN /\ pc' = "crashed"
            /\ exitCode' = <<1>>
            /\ UNCHANGED countVars
       ELSE /\ Tallied(result[i].status, result[i].size)
            /\ UNCHANGED <<pc, exitCode>>
    /\ UNCHANGED <<runVars, emojis, response, summary, prim, result, reqlog,
                   resplog, sawExists, writes, fsVars, histVars>>

\* as_completed is exhausted and the executor is shut down
EndLoop ==
    /\ pc = "loop"
    /\ \A i \in DOMAIN st : st[i] = "collected"
    /\ pc' = NextStmt("loop")
    /\ UNCHANGED <<runVars, exitCode, emojis, response, summary, fsVars, itemVars,
                   countVars, histVars>>

\* print(f"Downloaded: {downloaded}") ... print(f"Location: {OUTPUT_DIR}")
PrintSummary ==
    /\ pc = "summary"
    /\ summary' = <<[downloaded |-> downloaded, skipped |-> skipped,
                     failed |-> failed, total_size |-> total_size]>>
    /\ pc' = NextStmt("summary")
    /\ UNCHANGED <<runVars, exitCode, emojis, response, fsVars, itemVars,
                   countVars, histVars>>

\* the category index is built and written; download_all returns
SaveIndex ==
    /\ pc = "index"
    /\ catFile' = <<BuildCategories(<<>>, emojis)>>
    /\ catSaved' = TRUE
    /\ pc' = NextStmt("index")
    /\ exitCode' = <<0>>
    /\ UNCHANGED <<runVars, dirExists, files, metaFile, emojis, response, summary,
                   metaSaved, startFiles, prevStatus, itemVars, countVars>>

\* the script is started again on the same output directory
Rerun ==
    /\ pc \in {"done", "aborted", "crashed"}
    /\ rerun' = TRUE
    /\ pc' = "start"
    /\ exitCode' = <<>>
    /\ emojis' = <<>>
    /\ st' = <<>> /\ prim' = <<>> /\ result' = <<>>
    /\ response' = <<>>
    /\ reqlog' = <<>> /\ resplog' = <<>> /\ sawExists' = <<>> /\ writes' = <<>>
    /\ downloaded' = 0 /\ skipped' = 0 /\ failed' = 0 /\ total_size' = ZeroSize
    /\ printed' = NoLines
    /\ summary' = <<>>
    /\ metaSaved' = FALSE /\ catSaved' = FALSE
    /\ startFiles' = DOMAIN files
    /\ prevStatus' = IF pc = "done" THEN <<[i \in Items |-> result[i].status]>>
                                    ELSE <<>>
    /\ UNCHANGED <<catalog, fsVars>>

(***************************************************************************)
(* download_one, on the threads of the executor.                           *)
(***************************************************************************)
mainVars == <<catalog, rerun, pc, exitCode, emojis, response, summary>>

\* a worker thread takes the next work item off the executor's queue
Start(i) ==
    /\ st[i] = "queued"
    /\ \A j \in 1..(i - 1) : st[j] # "queued"
    /\ WorkerAvailable(InFlight)
    /\ st' = [st EXCEPT ![i] = "check"]
    /\ UNCHANGED <<prim, result, reqlog, resplog, sawExists, writes>>
    /\ UNCHANGED <<mainVars, fsVars, countVars, histVars>>

\* what is true of the disk at the moment of the os.path.exists call
OnDisk(i) == IF Filename(emojis[i]) \in DOMAIN files THEN "yes" ELSE "no"

\* if os.path.exists(filepath): return "skipped", name, 0
ReturnSkipped(i) ==
    /\ st[i] = "check"
    /\ Exists(files, Filename(emojis[i]))
    /\ sawExists' = [sawExists EXCEPT ![i] = OnDisk(i)]
    /\ result' = [result EXCEPT ![i] = Skipped(emojis[i])]
    /\ st' = [st EXCEPT ![i] = "done"]
    /\ UNCHANGED <<prim, reqlog, resplog, writes>>
    /\ UNCHANGED <<mainVars, fsVars, countVars, histVars>>

\* the file is not there: r = requests.get(url, timeout=20) is sent
RequestPrimary(i) ==
    /\ st[i] = "check"
    /\ ~Exists(files, Filename(emojis[i]))
    /\ sawExists' = [sawExists EXCEPT ![i] = OnDisk(i)]
    /\ reqlog' = [reqlog EXCEPT ![i] = Append(@, Url(emojis[i]))]
    /\ st' = [st EXCEPT ![i] = "primary"]
    /\ UNCHANGED <<prim, result, resplog, writes>>
    /\ UNCHANGED <<mainVars, fsVars, countVars, histVars>>

\* RequestRaises with the exception of the secondary request reported as
\* the failure the primary status announced
RequestRaises_SecondaryAsFailed(i, resp) ==
    /\ st[i] \in {"primary", "secondary"}
    /\ resp.kind = "exc"
    /\ resplog' = [resplog EXCEPT ![i] = Append(@, resp)]
    /\ result' = [result EXCEPT ![i] =
                    IF st[i] = "secondary" THEN Failed(emojis[i], prim[i], 0)
                    ELSE IF Catches(resp.exc) THEN Error(emojis[i], resp.exc)
                    ELSE Raised(resp.exc)]
    /\ prim' = [prim EXCEPT ![i] = 0]
    /\ st' = [st EXCEPT ![i] = "done"]
    /\ UNCHANGED <<reqlog, sawExists, writes>>
    /\ UNCHANGED <<mainVars, fsVars, countVars, histVars>>

\* the request raises (connection failure, timeout); "except Exception"
\* turns it into "error", and what it did not catch would leave download_one
RequestRaises(i, resp) ==
    /\ st[i] \in {"primary", "secondary"}
    /\ resp.kind = "exc"
    /\ resplog' = [resplog EXCEPT ![i] = Append(@, resp)]
    /\ result' = [result EXCEPT ![i] =
                    IF Catches(resp.exc) THEN Error(emojis[i], resp.exc)
                    ELSE Raised(resp.exc)]
    /\ prim' = [prim EXCEPT ![i] = 0]
    /\ st' = [st EXCEPT ![i] = "done"]
    /\ UNCHANGED <<reqlog, sawExists, writes>>
    /\ UNCHANGED <<mainVars, fsVars, countVars, histVars>>

\* a response with status 200, to the primary or to the secondary request:
\* the content is written and "ok" returned
ReturnOk(i, resp) ==
    /\ st[i] \in {"primary", "secondary"}
    /\ resp.kind = "http"
    /\ IsSuccess(resp)
    /\ resplog' = [resplog EXCEPT ![i] = Append(@, resp)]
    /\ files' = WriteFile(files, Filename(emojis[i]), resp.content)
    /\ writes' = [writes EXCEPT ![i] = Append(@, resp.content)]
    /\ prim' = [prim EXCEPT ![i] = 0]
    /\ result' = [result EXCEPT ![i] = Ok(emojis[i], resp.content)]
    /\ st' = [st EXCEPT ![i] = "done"]
    /\ UNCHANGED <<reqlog, sawExists>>
    /\ UNCHANGED <<mainVars, dirExists, metaFile, catFile, countVars, histVars>>

\* RequestSecondary sent after a primary request that raised as well
RequestSecondary_AfterFault(i, resp) ==
    /\ st[i] = "primary"
    /\ (resp.kind = "exc" \/ ~IsSuccess(resp))
    /\ resplog' = [resplog EXCEPT ![i] = Append(@, resp)]
    /\ prim' = [prim EXCEPT ![i] = resp.status_code]
    /\ reqlog' = [reqlog EXCEPT ![i] = Append(@, Url2(emojis[i]))]
    /\ st' = [st EXCEPT ![i] = "secondary"]
    /\ UNCHANGED <<result, sawExists, writes>>
    /\ UNCHANGED <<mainVars, fsVars, countVars, histVars>>

\* the primary response has another status:
\* r2 = requests.get(url2, timeout=20) is sent
RequestSecondary(i, resp) ==
    /\ st[i] = "primary"
    /\ resp.kind = "http"
    /\ ~IsSuccess(resp)
    /\ resplog' = [resplog EXCEPT ![i] = Append(@, resp)]
    /\ prim' = [prim EXCEPT ![i] = resp.status_code]
    /\ reqlog' = [reqlog EXCEPT ![i] = Append(@, Url2(emojis[i]))]
    /\ st' = [st EXCEPT ![i] = "secondary"]
    /\ UNCHANGED <<result, sawExists, writes>>
    /\ UNCHANGED <<mainVars, fsVars, countVars, histVars>>

\* the secondary response has another status too:
\* return "failed", f"{name} HTTP {r.status_code}", 0
ReturnFailed(i, resp) ==
    /\ st[i] = "secondary"
    /\ resp.kind = "http"
    /\ ~IsSuccess(resp)
    /\ resplog' = [resplog EXCEPT ![i] = Append(@, resp)]
    /\ result' = [result EXCEPT ![i] = Failed(emojis[i], prim[i], resp.status_code)]
    /\ prim' = [prim EXCEPT ![i] = 0]
    /\ st' = [st EXCEPT ![i] = "done"]
    /\ UNCHANGED <<reqlog, sawExists, writes>>
    /\ UNCHANGED <<mainVars, fsVars, countVars, histVars>>

(***************************************************************************)
(* Specifications.                                                         *)
(***************************************************************************)
Next ==
    \/ StartRun
    \/ \E resp \in CatalogResponses : CatalogUnreachable(resp)
    \/ \E resp \in CatalogResponses : CatalogRejected(resp)
    \/ \E resp \in CatalogResponses : CatalogParsed(resp)
    \/ SaveMetadata
    \/ SubmitAll
    \/ \E i \in DOMAIN st : Start(i)
    \/ \E i \in DOMAIN st : ReturnSkipped(i)
    \/ \E i \in DOMAIN st : RequestPrimary(i)
    \/ \E i \in DOMAIN st, resp \in ItemResponses : RequestRaises(i, resp)
    \/ \E i \in DOMAIN st, resp \in ItemResponses : ReturnOk(i, resp)
    \/ \E i \in DOMAIN st, resp \in ItemResponses : RequestSecondary(i, resp)
    \/ \E i \in DOMAIN st, resp \in ItemResponses : ReturnFailed(i, resp)
    \/ \E i \in DOMAIN st : Collect(i)
    \/ EndLoop
    \/ PrintSummary
    \/ SaveIndex

Spec == Init /\ [][Next]_vars

\* the same, the script being started again any number of times
NextRerun == Next \/ Rerun
SpecRerun == Init /\ [][NextRerun]_vars


\* a catalog longer than the thread pool, every entry of it on disk already
PoolCatalog == [k \in 1..(max_workers + PoolExtra) |-> PoolEmoji(k)]

InitPool ==
    /\ catalog = PoolCatalog
    /\ rerun = FALSE
    /\ FreshRun
    /\ dirExists = TRUE
    /\ files = [p \in {Filename(e) : e \in Range(PoolCatalog)} |-> OldBody]
    /\ metaFile = <<>> /\ catFile = <<>>
    /\ startFiles = DOMAIN files
    /\ prevStatus = <<>>

\* the steps of Next that such a run can take
NextPool ==
    \/ StartRun
    \/ \E resp \in CatalogResponses : CatalogUnreachable(resp)
    \/ \E resp \in CatalogResponses : CatalogRejected(resp)
    \/ \E resp \in CatalogResponses : CatalogParsed(resp)
    \/ SaveMetadata
    \/ SubmitAll
    \/ \E i \in DOMAIN st : Start(i)
    \/ \E i \in DOMAIN st : ReturnSkipped(i)
    \/ \E i \in DOMAIN st : Collect(i)
    \/ EndLoop
    \/ PrintSummary
    \/ SaveIndex

SpecPool == InitPool /\ [][NextPool]_vars

\* catalogs whose entries share categories and meet them in every order,
\* every entry on disk already: the run goes straight to the category index
InitIndex ==
    /\ catalog \in Arrangements(IndexEmojis, MaxIndexItems)
    /\ rerun = FALSE
    /\ FreshRun
    /\ dirExists = TRUE
    /\ files = [p \in {Filename(e) : e \in Range(catalog)} |-> OldBody]
    /\ metaFile = <<>> /\ catFile = <<>>
    /\ startFiles = DOMAIN files
    /\ prevStatus = <<>>

SpecIndex == InitIndex /\ [][NextPool]_vars


\* the loop of download_all taken alone.  The outcomes of a catalog of any
\* length arrive in any order; the futures that hold them are left out.
OutcomeInputs ==
    {<<"ok", SizeKB(Body1)>>, <<"skipped", ZeroSize>>, <<"failed", ZeroSize>>,
     <<"error", ZeroSize>>}

InitTally ==
    /\ catalog = <<>>
    /\ rerun = FALSE
    /\ pc = "loop"
    /\ exitCode = <<>>
    /\ emojis = <<>>
    /\ st = <<>> /\ prim = <<>> /\ result = <<>>
    /\ response = <<Http(HTTP_OK, NoBody)>>
    /\ reqlog = <<>> /\ resplog = <<>> /\ sawExists = <<>> /\ writes = <<>>
    /\ downloaded = 0 /\ skipped = 0 /\ failed = 0 /\ total_size = ZeroSize
    /\ printed = NoLines
    /\ summary = <<>>
    /\ metaSaved = TRUE /\ catSaved = FALSE
    /\ dirExists = TRUE
    /\ files = <<>>
    /\ metaFile = <<catalog>> /\ catFile = <<>>
    /\ startFiles = {}
    /\ prevStatus = <<>>

\* one turn of the loop for an outcome of that status and size
CollectOutcome(status, size) ==
    /\ pc = "loop"
    /\ LET c == Tally(Counters, status, size)
       IN  c.downloaded <= MaxOk /\ c.skipped <= MaxSkipped /\ c.failed <= MaxFailed
    /\ Tallied(status, size)
    /\ UNCHANGED <<mainVars, fsVars, itemVars, histVars>>

NextTally == \E io \in OutcomeInputs : CollectOutcome(io[1], io[2])

SpecTally == InitTally /\ [][NextTally]_vars


(***************************************************************************)
(* Fairness.  The threads of the process are scheduled by the operating    *)
(* system; a request for an emoji is sent with timeout=20, so that it ends *)
(* with a response or with an exception.  The catalog request is sent      *)
(* without a timeout: nothing makes its response arrive.                   *)
(***************************************************************************)
MainStep ==
    \/ StartRun
    \/ SaveMetadata
    \/ SubmitAll
    \/ \E i \in DOMAIN st : Collect(i)
    \/ EndLoop
    \/ PrintSummary
    \/ SaveIndex

WorkerStep ==
    \E i \in DOMAIN st : Start(i) \/ ReturnSkipped(i) \/ RequestPrimary(i)

ItemResponse ==
    \E i \in DOMAIN st, resp \in ItemResponses :
        \/ RequestRaises(i, resp)
        \/ ReturnOk(i, resp)
        \/ RequestSecondary(i, resp)
        \/ ReturnFailed(i, resp)

SpecFair ==
    /\ Init /\ [][Next]_vars
    /\ WF_vars(MainStep) /\ WF_vars(WorkerStep) /\ WF_vars(ItemResponse)

(***************************************************************************)
(* What the properties below speak of.                                     *)
(***************************************************************************)
\* q == n, as Python compares a float with an int
SizeEqInt(q, n) == q.num = n * q.den

Returned(i) == st[i] \in {"done", "collected"}
Collected == {i \in DOMAIN st : st[i] = "collected"}
WithStatus(S, statuses) == Cardinality({i \in S : result[i].status \in statuses})

\* the n-th response download_one number k received is a status other than 200
NonSuccess(k, n) ==
    /\ Len(resplog[k]) >= n
    /\ resplog[k][n].kind = "http"
    /\ resplog[k][n].status_code # 200

Success(k, n) ==
    /\ Len(resplog[k]) >= n
    /\ resplog[k][n].kind = "http"
    /\ resplog[k][n].status_code = 200

Faulted(k, n) == Len(resplog[k]) >= n /\ resplog[k][n].kind = "exc"

\* the catalog request was answered with status 200
CatalogFetched ==
    response # <<>> /\ response[1].kind = "http" /\ response[1].status_code = 200

\* the catalog request failed: another status, or no answer at all
CatalogNotFetched == response # <<>> /\ ~CatalogFetched

\* the previous run completed and every outcome of it was "ok" or "skipped"
PrevClean ==
    /\ prevStatus # <<>>
    /\ \A k \in DOMAIN prevStatus[1] : prevStatus[1][k] \in {"ok", "skipped"}

\* download_one number i got a status other than 200, then 200
FallbackSucceeded(i) == NonSuccess(i, 1) /\ Success(i, 2)

\* download_all has returned after the loop, the summary and the index
RunComplete ==
    /\ pc = "done"
    /\ DOMAIN st = 1..Len(catalog)
    /\ \A i \in DOMAIN st : st[i] = "collected"
    /\ summary # <<>>
    /\ catSaved /\ catFile # <<>>

(***************************************************************************)
(* C1.  A download_one that finds its destination file on disk returns     *)
(* "skipped", having sent no request and written nothing.                  *)
(***************************************************************************)
C1_ExistingFileSkipped ==
    \A i \in DOMAIN st :
        sawExists[i] = "yes" =>
            /\ Returned(i)
            /\ result[i].status = "skipped"
            /\ reqlog[i] = <<>> /\ resplog[i] = <<>>
            /\ writes[i] = <<>>

C1_Witness ==
    \E i \in DOMAIN st :
        /\ sawExists[i] = "yes" /\ Returned(i)
        /\ \E j \in DOMAIN st : sawExists[j] = "no" /\ reqlog[j] # <<>>

(***************************************************************************)
(* C2.  In a run that follows another on the same catalog and directory,   *)
(* no request is sent for an entry whose file was on disk when the run     *)
(* started and that entry is reported "skipped"; after a run in which      *)
(* every outcome was "ok" or "skipped", the summary of the next run is     *)
(* skipped = total, downloaded = 0, failed = 0.                            *)
(***************************************************************************)
C2_RerunSkipsAll ==
    rerun =>
        /\ \A i \in DOMAIN st :
              Filename(emojis[i]) \in startFiles =>
                  /\ reqlog[i] = <<>>
                  /\ Returned(i) => result[i].status = "skipped"
        /\ (PrevClean /\ summary # <<>>) =>
              /\ summary[1].skipped = Len(catalog)
              /\ summary[1].downloaded = 0
              /\ summary[1].failed = 0

C2_Witness ==
    /\ rerun /\ PrevClean /\ summary # <<>>
    /\ Len(catalog) = 2
    /\ \E k \in DOMAIN prevStatus[1] : prevStatus[1][k] = "ok"
    /\ \E k \in DOMAIN prevStatus[1] : prevStatus[1][k] = "skipped"

(***************************************************************************)
(* C3.  The fallback.  The primary request is answered with a status other *)
(* than 200 and the secondary request, sent to the URL with the spaces of  *)
(* the codepoint replaced by underscores, with status 200 and content B:   *)
(* download_one returns "ok" and the destination file holds exactly B when *)
(* it returns.  The size that "ok" carries is stated twice below: in       *)
(* kilobytes, and as the number of bytes of B.                             *)
(***************************************************************************)
\* the state part: the outcome, the two URLs and the content written
C3_FallbackState ==
    \A i \in DOMAIN st :
        FallbackSucceeded(i) =>
            /\ Returned(i)
            /\ result[i].status = "ok"
            /\ result[i].size.num = resplog[i][2].content.len
            /\ result[i].size.den = 1024
            /\ Len(reqlog[i]) = 2
            /\ reqlog[i][2] = Replace(reqlog[i][1], " ", "_")
            /\ writes[i] = <<resplog[i][2].content>>

\* the step part: when the secondary response arrives, B is in the file
C3_FallbackStep ==
    \A i \in DOMAIN st :
        (i \in DOMAIN st' /\ ~FallbackSucceeded(i) /\ FallbackSucceeded(i)') =>
            /\ Filename(emojis[i]) \in DOMAIN files'
            /\ files'[Filename(emojis[i])] = resplog'[i][2].content

C4_PrimaryFaultNoFallback ==
    \A i \in DOMAIN st :
        Faulted(i, 1) =>
            /\ Returned(i)
            /\ result[i].status = "error"
            /\ Len(reqlog[i]) = 1 /\ Len(resplog[i]) = 1

C4_Witness ==
    /\ \E i \in DOMAIN st : Faulted(i, 1) /\ resplog[i][1].exc = "Timeout"
    /\ \E i \in DOMAIN st : Faulted(i, 1) /\ resplog[i][1].exc = "ConnectionError"

(***************************************************************************)
(* C5.  When both requests are answered with a status other than 200,      *)
(* download_one returns "failed" and the reason names the status of the    *)
(* primary response.                                                       *)
(***************************************************************************)
C5_FailedCarriesPrimaryStatus ==
    \A i \in DOMAIN st :
        (NonSuccess(i, 1) /\ NonSuccess(i, 2)) =>
            /\ Returned(i)
            /\ result[i].status = "failed"
            /\ result[i].msg.text = emojis[i].name
            /\ result[i].msg.http = resplog[i][1].status_code

C5_Witness ==
    \E i \in DOMAIN st :
        /\ NonSuccess(i, 1) /\ NonSuccess(i, 2)
        /\ resplog[i][1].status_code # resplog[i][2].status_code


(***************************************************************************)
(* C6.  With the pool of 10 workers and a catalog of more than 10          *)
(* entries, at most 10 download_one invocations have started and not yet   *)
(* returned.                                                               *)
(***************************************************************************)
C6_AtMostTenInFlight == InFlight <= 10

\* ten invocations in flight and an eleventh entry waiting in the queue
C6_Witness ==
    /\ InFlight = 10
    /\ Len(emojis) > 10
    /\ \E i \in DOMAIN st : st[i] = "queued"

(***************************************************************************)
(* C7.  In every state the counters downloaded, skipped and failed are the *)
(* numbers of "ok", of "skipped" and of "failed" or "error" outcomes       *)
(* collected so far, so that their sum is the number of outcomes           *)
(* collected; the summary printed holds these numbers for the whole        *)
(* catalog, and they add up to its length.                                 *)
(***************************************************************************)
C7_CountersMatchOutcomes ==
    /\ st # <<>> =>
          /\ downloaded = WithStatus(Collected, {"ok"})
          /\ skipped = WithStatus(Collected, {"skipped"})
          /\ failed = WithStatus(Collected, {"failed", "error"})
          /\ downloaded + skipped + failed = Cardinality(Collected)
    /\ summary # <<>> =>
          /\ summary[1].downloaded = WithStatus(DOMAIN st, {"ok"})
          /\ summary[1].skipped = WithStatus(DOMAIN st, {"skipped"})
          /\ summary[1].failed = WithStatus(DOMAIN st, {"failed", "error"})
          /\ summary[1].downloaded + summary[1].skipped + summary[1].failed
                = Len(catalog)

C7_Witness ==
    /\ summary # <<>>
    /\ summary[1].downloaded = 1
    /\ summary[1].failed = 1
    /\ \E i \in DOMAIN st : result[i].status = "error"

(***************************************************************************)
(* C8.  Once the catalog request has been answered with status 200, the    *)
(* run is never aborted and eventually has collected the outcome of every  *)
(* catalog entry, printed the summary and written the category index,      *)
(* whatever the outcomes are.                                              *)
(***************************************************************************)
C8_RunCompletes ==
    /\ [](CatalogFetched => pc \notin {"aborted", "crashed"})
    /\ CatalogFetched ~> RunComplete

C8_Witness ==
    /\ RunComplete
    /\ \E i, j \in DOMAIN st :
          /\ i < j
          /\ result[i].status \in {"failed", "error"}
          /\ result[j].status = "ok"

(***************************************************************************)
(* C9.  No download_one starts, no emoji is requested and no emoji file is *)
(* written before _metadata.json holds the catalog of this run.            *)
(***************************************************************************)
C9_MetadataBeforeDownloads ==
    (\E i \in DOMAIN st :
        st[i] # "queued" \/ reqlog[i] # <<>> \/ writes[i] # <<>>)
    => (metaSaved /\ metaFile = <<catalog>>)

C9_Witness ==
    /\ metaSaved
    /\ \E i \in DOMAIN st : st[i] = "check"
    /\ \A i \in DOMAIN st : st[i] \in {"queued", "check"}

(***************************************************************************)
(* C10.  When the catalog request is answered with another status than     *)
(* 200, or not answered at all, the run ends there: no download_one is     *)
(* submitted, no emoji is requested, and neither _metadata.json nor        *)
(* _categories.json nor any emoji file is written.                         *)
(***************************************************************************)
C10_FailedCatalogAborts ==
    CatalogNotFetched =>
        /\ pc \in {"aborted", "crashed"}
        /\ emojis = <<>> /\ st = <<>> /\ reqlog = <<>> /\ writes = <<>>
        /\ ~metaSaved /\ ~catSaved
        /\ metaFile = <<>> /\ catFile = <<>>
        /\ DOMAIN files = startFiles
        /\ \A p \in DOMAIN files : files[p] = OldBody

C10_Witness ==
    /\ CatalogNotFetched
    /\ response[1].status_code = 500
    /\ pc = "aborted"
    /\ files # <<>>

(***************************************************************************)
(* C11.  The process ends with a non-zero exit status exactly when the     *)
(* catalog request failed: a catalog response with another status than 200 *)
(* ends the process with a non-zero status, and a run whose catalog        *)
(* request was answered with 200 ends with status 0 whatever the outcomes  *)
(* of its entries are.                                                     *)
(***************************************************************************)
C11_NonZeroExitIffCatalogFailed ==
    exitCode # <<>> => (exitCode[1] # 0 <=> CatalogNotFetched)

(***************************************************************************)
(* C12.  A catalog entry whose categories are empty, the list present      *)
(* with no element or the key absent, has its summary in _categories.json  *)
(* under "Other" and under no other category.                              *)
(***************************************************************************)
\* the categories of the index under which an item summary is listed
CategoriesHolding(dict, item) ==
    {dict[k].cat : k \in {n \in 1..Len(dict) : item \in Range(dict[n].items)}}

\* the entry has no category: no "categories" key, or an empty list
NoCategories(emoji) == Get(emoji.categories, <<>>) = <<>>

C12_EmptyCategoriesUnderOther ==
    catFile # <<>> =>
        \A i \in 1..Len(emojis) :
            NoCategories(emojis[i]) =>
                CategoriesHolding(catFile[1], Summary(emojis[i])) = {"Other"}

(***************************************************************************)
(* C13.  The order of _categories.json.  Within each category the item     *)
(* summaries are in catalog order.  The order of the categories is stated  *)
(* twice below: as the order in which the categories are first met while   *)
(* the catalog is read, and as the order of their names.                   *)
(***************************************************************************)
\* the category lists of the catalog entries, one after the other
RECURSIVE Encounters(_)
Encounters(items) ==
    IF items = <<>> THEN <<>>
    ELSE CategoriesOf(Head(items)) \o Encounters(Tail(items))

\* where a category is met first
FirstAt(cat) ==
    LET enc == Encounters(emojis)
    IN  CHOOSE n \in 1..Len(enc) :
            enc[n] = cat /\ \A m \in 1..(n - 1) : enc[m] # cat

\* the summaries of the entries of a category, in catalog order
RECURSIVE SummariesIn(_, _)
SummariesIn(cat, items) ==
    IF items = <<>> THEN <<>>
    ELSE (IF cat \in Range(CategoriesOf(Head(items)))
          THEN <<Summary(Head(items))>> ELSE <<>>)
            \o SummariesIn(cat, Tail(items))

\* the index holds every category met, once, with its summaries in
\* catalog order
IndexItemsInCatalogOrder(dict) ==
    /\ {dict[k].cat : k \in 1..Len(dict)} = Range(Encounters(emojis))
    /\ \A j, k \in 1..Len(dict) : j # k => dict[j].cat # dict[k].cat
    /\ \A k \in 1..Len(dict) : dict[k].items = SummariesIn(dict[k].cat, emojis)

\* C13 as the code writes the file: json.dump keeps the order of the dict,
\* which is the order in which the categories were first met
C13_IndexInFirstMetOrder ==
    catFile # <<>> =>
        /\ IndexItemsInCatalogOrder(catFile[1])
        /\ \A j, k \in 1..Len(catFile[1]) :
              j < k => FirstAt(catFile[1][j].cat) < FirstAt(catFile[1][k].cat)

\* C13 with the categories of the file sorted by name
C13_IndexSortedByName ==
    catFile # <<>> =>
        /\ IndexItemsInCatalogOrder(catFile[1])
        /\ \A j, k \in 1..Len(catFile[1]) :
              j < k => NameRank(catFile[1][j].cat) < NameRank(catFile[1][k].cat)

\* "Smileys" is met before "Animals", and "Animals" holds two summaries
C13_Witness ==
    /\ catFile # <<>>
    /\ Len(catFile[1]) >= 2
    /\ catFile[1][1].cat = "Smileys" /\ catFile[1][2].cat = "Animals"
    /\ Len(catFile[1][2].items) = 2

(***************************************************************************)
(* C14.  Different catalog entries have different destination paths: no    *)
(* two download_one invocations for different entries check, open or write *)
(* the same file, in any catalog and any interleaving of the workers.      *)
(***************************************************************************)
\* download_one number i has made its os.path.exists call on its path
Checked(i) == sawExists[i] # "unchecked"

C14_DisjointDestinationPaths ==
    \A i, j \in DOMAIN st :
        (i # j /\ (Checked(i) \/ writes[i] # <<>>) /\ (Checked(j) \/ writes[j] # <<>>))
            => Filename(emojis[i]) # Filename(emojis[j])

(***************************************************************************)
(* C15.  Every request of a run is sent with a timeout, the catalog        *)
(* request as well as the primary and the secondary request of an entry:   *)
(* with fair scheduling every request sent is answered, by a response or   *)
(* by the exception of its timeout, and every run ends.                    *)
(***************************************************************************)
C15_NoRequestPendsForever ==
    /\ (pc = "catalog") ~> (response # <<>>)
    /\ \A i \in 1..MaxItems :
          (i \in DOMAIN st /\ st[i] \in {"primary", "secondary"})
              ~> (i \in DOMAIN st /\ Returned(i))
    /\ <>(exitCode # <<>>)

(***************************************************************************)
(* C16.  Every download_one returns exactly one outcome, and its status is *)
(* "ok", "skipped", "failed" or "error": none raises, so that no exception *)
(* of an entry reaches the loop of download_all through future.result().   *)
(***************************************************************************)
Outcomes == {"ok", "skipped", "failed", "error"}

\* an invocation that has returned holds an outcome, one that has not holds
\* none, and the loop has not been left by an exception
C16_OutcomeState ==
    /\ \A i \in DOMAIN st :
          /\ Returned(i) => result[i].status \in Outcomes
          /\ ~Returned(i) => result[i] = NoResult
    /\ CatalogFetched => pc # "crashed"

\* the outcome of an invocation that has returned is never replaced
C16_OutcomeStep ==
    \A i \in DOMAIN st :
        Returned(i) => (i \in DOMAIN st' /\ Returned(i)' /\ result'[i] = result[i])

C16_OneTaggedOutcome == [](C16_OutcomeState) /\ [][C16_OutcomeStep]_vars

\* a timeout and a pair of refusals, both collected as outcomes
C16_Witness ==
    /\ pc = "done"
    /\ \E i, j \in DOMAIN st :
          /\ result[i].status = "error" /\ result[i].msg.exc = "Timeout"
          /\ result[j].status = "failed"

(***************************************************************************)
(* C17.  The lines of the loop.  An "ok" outcome gets a line exactly when  *)
(* it is one of the first 5 "ok" outcomes collected or its number among    *)
(* them is a multiple of 25; a "failed" or "error" outcome exactly when it *)
(* is one of the first 10 of these, so that there are at most 10 FAIL      *)
(* lines; a "skipped" outcome never.  The counters move by the outcome     *)
(* alone, whether it got a line or not.                                    *)
(***************************************************************************)
C17_LinesState ==
    /\ printed.ok = {n \in 1..downloaded : n <= 5 \/ n % 25 = 0}
    /\ printed.failed = {n \in 1..failed : n <= 10}
    /\ Cardinality(printed.failed) <= 10
    /\ printed.skipped = {}

\* what one outcome adds to each counter
C17_CountStep ==
    \A io \in OutcomeInputs :
        CollectOutcome(io[1], io[2]) =>
            /\ downloaded' = downloaded + (IF io[1] = "ok" THEN 1 ELSE 0)
            /\ skipped' = skipped + (IF io[1] = "skipped" THEN 1 ELSE 0)
            /\ failed' = failed + (IF io[1] \in {"failed", "error"} THEN 1 ELSE 0)

C17_PrintPolicy == [](C17_LinesState) /\ [][C17_CountStep]_vars

\* 26 "ok" outcomes, of which the 6th got no line and the 25th got one,
\* 12 failures, of which the 11th got no line, and skipped outcomes
C17_Witness ==
    /\ downloaded = 26 /\ failed = 12 /\ skipped = 2
    /\ 25 \in printed.ok /\ 6 \notin printed.ok /\ 26 \notin printed.ok
    /\ 10 \in printed.failed /\ 11 \notin printed.failed

(***************************************************************************)
(* C18.  The requests of one download_one: at most one primary and at most *)
(* one secondary request; the secondary request only after the primary     *)
(* response had another status than 200, never after a 200, after an       *)
(* exception or after the file was found on disk; and nothing is requested *)
(* once the outcome is returned, so that no request is made again after a  *)
(* failure.                                                                *)
(***************************************************************************)
C18_RequestsState ==
    \A i \in DOMAIN st :
        /\ Len(reqlog[i]) <= 2
        /\ Len(reqlog[i]) >= 1 => reqlog[i][1] = Url(emojis[i])
        /\ Len(reqlog[i]) = 2 =>
              /\ reqlog[i][2] = Url2(emojis[i])
              /\ NonSuccess(i, 1)
        /\ (Success(i, 1) \/ Faulted(i, 1)) => Len(reqlog[i]) = 1
        /\ sawExists[i] = "yes" => reqlog[i] = <<>>
        /\ IF Returned(i) THEN Len(resplog[i]) = Len(reqlog[i])
                          ELSE Len(resplog[i]) = Len(reqlog[i]) - 1
                                 \/ reqlog[i] = <<>>

\* an invocation that has returned sends nothing more
C18_RequestsStep ==
    \A i \in DOMAIN st :
        Returned(i) => (i \in DOMAIN st' /\ reqlog'[i] = reqlog[i])

C18_OnePrimaryOneSecondary == [](C18_RequestsState) /\ [][C18_RequestsStep]_vars

\* one entry failed after its two requests, the other went no further than
\* a primary request that succeeded or raised
C18_Witness ==
    \E i, j \in DOMAIN st :
        /\ Returned(i) /\ result[i].status = "failed" /\ Len(reqlog[i]) = 2
        /\ Returned(j) /\ result[j].status \in {"ok", "error"} /\ Len(reqlog[j]) = 1

(***************************************************************************)
(* C19.  When the primary response has another status than 200 and the     *)
(* secondary request then raises (connection failure, timeout),            *)
(* download_one returns "error", not "failed"; it returns "failed" only    *)
(* when both responses have another status than 200.                       *)
(***************************************************************************)
C19_SecondaryFaultIsError ==
    \A i \in DOMAIN st :
        /\ (NonSuccess(i, 1) /\ Faulted(i, 2)) =>
              /\ Returned(i)
              /\ result[i].status = "error"
              /\ result[i].msg.exc = resplog[i][2].exc
        /\ result[i].status = "failed" => (NonSuccess(i, 1) /\ NonSuccess(i, 2))

C19_Witness ==
    \E i, j \in DOMAIN st :
        /\ NonSuccess(i, 1) /\ Faulted(i, 2) /\ resplog[i][2].exc = "Timeout"
        /\ result[j].status = "failed"

(***************************************************************************)
(* C20.  A download_one that returns "failed", or "error" after a request  *)
(* raised, has written nothing: it leaves no file at its destination path; *)
(* a file is written only by a download_one that received status 200.  So  *)
(* an entry whose outcome was "failed" or "error" in one run is not        *)
(* "skipped" in the next run: it is requested again.                       *)
(***************************************************************************)
\* the last response download_one number i received
LastResponse(i) == resplog[i][Len(resplog[i])]

C20_FailedWritesNothing ==
    \A i \in DOMAIN st :
        /\ result[i].status \in {"failed", "error"} => writes[i] = <<>>
        /\ writes[i] # <<>> =>
              /\ resplog[i] # <<>>
              /\ LastResponse(i).kind = "http" /\ LastResponse(i).status_code = 200
              /\ writes[i] = <<LastResponse(i).content>>

C20_FailedIsRequestedAgain ==
    (rerun /\ prevStatus # <<>>) =>
        \A k \in DOMAIN st :
            (prevStatus[1][k] \in {"failed", "error"} /\ Returned(k)) =>
                /\ result[k].status # "skipped"
                /\ reqlog[k] # <<>>

C20_FailedLeavesNoFile == C20_FailedWritesNothing /\ C20_FailedIsRequestedAgain

====
